---------------------------- MODULE Spec2Model ----------------------------
(***************************************************************************)
(* mecapsule: bootstrap of a DHT node over an IRC rendezvous channel.      *)
(*                                                                         *)
(* The module models src/mecapsule.py: the process life cycle (argument    *)
(* parsing, atexit hook, port mapping), the client-side acquisition loop   *)
(* (node list file, IRC request, retry and backoff), the responder's reply *)
(* and the node list file format.  Text is modelled as sequences of        *)
(* one-character strings so that formatting and parsing are computed.      *)
(***************************************************************************)
EXTENDS Integers, Sequences, FiniteSets, TLC

-----------------------------------------------------------------------------
(* Text helpers: Python str operations used by the program.                *)

NL == "\n"
Whitespace == {" ", NL}
DigitChars == <<"0", "1", "2", "3", "4", "5", "6", "7", "8", "9">>
IsDigit(c) == \E i \in 1..10 : DigitChars[i] = c
DigitVal(c) == (CHOOSE i \in 1..10 : DigitChars[i] = c) - 1

Min(a, b) == IF a < b THEN a ELSE b

\* the element of a one-element set; the operators below write
\* The({e : x \in {a}}) for "e with x the value of a", so that an operand is
\* evaluated once however often e uses it
The(S) == CHOOSE x \in S : TRUE

RECURSIVE Pow2(_)
Pow2(n) == IF n = 0 THEN 1 ELSE 2 * Pow2(n - 1)

\* s.startswith(p)
StartsWith(s, p) == Len(s) >= Len(p) /\ SubSeq(s, 1, Len(p)) = p

\* c in s
Contains(s, c) == \E i \in 1..Len(s) : s[i] = c

RECURSIVE LStrip(_)
LStrip(a) ==
    The({IF s # <<>> /\ s[1] \in Whitespace THEN LStrip(Tail(s)) ELSE s : s \in {a}})

RECURSIVE RStrip(_)
RStrip(a) ==
    The({IF s # <<>> /\ s[Len(s)] \in Whitespace
         THEN RStrip(SubSeq(s, 1, Len(s) - 1)) ELSE s : s \in {a}})

\* s.strip()
Strip(s) == RStrip(LStrip(s))

\* s.split(sep): always at least one part, empty parts kept
RECURSIVE SplitOn(_, _)
SplitOn(a, sep) ==
    The({IF ~Contains(s, sep) THEN <<s>>
         ELSE LET i == CHOOSE k \in 1..Len(s) :
                           s[k] = sep /\ \A j \in 1..(k - 1) : s[j] # sep
              IN <<SubSeq(s, 1, i - 1)>> \o SplitOn(SubSeq(s, i + 1, Len(s)), sep)
         : s \in {a}})

\* s.split(): split on runs of whitespace, no empty parts
RECURSIVE SplitWS(_)
SplitWS(a) ==
    The({IF t = <<>> THEN <<>>
         ELSE IF \A k \in 1..Len(t) : t[k] \notin Whitespace THEN <<t>>
         ELSE LET i == CHOOSE k \in 1..Len(t) :
                           /\ t[k] \in Whitespace
                           /\ \A j \in 1..(k - 1) : t[j] \notin Whitespace
              IN <<SubSeq(t, 1, i - 1)>> \o SplitWS(SubSeq(t, i + 1, Len(t)))
         : t \in {LStrip(a)}})

\* sep.join(parts)
RECURSIVE Join(_, _)
Join(a, sep) ==
    The({IF parts = <<>> THEN <<>>
         ELSE IF Len(parts) = 1 THEN parts[1]
         ELSE parts[1] \o sep \o Join(Tail(parts), sep)
         : parts \in {a}})

\* the lines a text file yields when iterated: each keeps its newline, a
\* last line without newline is yielded too
RECURSIVE FileLines(_)
FileLines(a) ==
    The({IF s = <<>> THEN <<>>
         ELSE IF ~Contains(s, NL) THEN <<s>>
         ELSE LET i == CHOOSE k \in 1..Len(s) :
                           s[k] = NL /\ \A j \in 1..(k - 1) : s[j] # NL
              IN <<SubSeq(s, 1, i)>> \o FileLines(SubSeq(s, i + 1, Len(s)))
         : s \in {a}})

\* int(s) raises ValueError unless s is an optionally signed run of digits
\* (surrounding whitespace allowed)
IsInt(s) ==
    \E t \in {Strip(s)} :
        LET d == IF t # <<>> /\ t[1] \in {"+", "-"} THEN Tail(t) ELSE t
        IN d # <<>> /\ \A i \in 1..Len(d) : IsDigit(d[i])

RECURSIVE DigitsVal(_)
DigitsVal(a) ==
    The({IF d = <<>> THEN 0
         ELSE 10 * DigitsVal(SubSeq(d, 1, Len(d) - 1)) + DigitVal(d[Len(d)])
         : d \in {a}})

\* int(s) for an s that IsInt accepts
ToInt(s) ==
    The({IF t[1] = "-" THEN 0 - DigitsVal(Tail(t))
         ELSE IF t[1] = "+" THEN DigitsVal(Tail(t))
         ELSE DigitsVal(t)
         : t \in {Strip(s)}})

\* str(n) of a non-negative integer
RECURSIVE NatToStr(_)
NatToStr(n) ==
    IF n < 10 THEN <<DigitChars[n + 1]>>
    ELSE NatToStr(n \div 10) \o <<DigitChars[(n % 10) + 1]>>

\* f"{n}" of an integer
IntToStr(n) == IF n < 0 THEN <<"-">> \o NatToStr(0 - n) ELSE NatToStr(n)


-----------------------------------------------------------------------------
(* Program constants.                                                      *)

\* DEFAULT_BOOTSTRAP_COMMAND = '!bootstrap'
bootstrap_command == <<"!", "b", "o", "o", "t", "s", "t", "r", "a", "p">>

\* the sentinel get_public_ip() returns on failure, '0.0.0.0'
SentinelIp == <<"0", ".", "0", ".", "0", ".", "0">>

\* len(nodes) > 19 / random.sample(nodes, 19)
SampleCap == 19

\* while retries < 5 in request_bootstrap_via_irc
FastRetryCeiling == 5

\* while dht_server.protocol is None and retries < 5 in reply_bootstrap
PollCeiling == 5

\* min(5 * 2 ** retries, 300)
BackoffBase == 5
BackoffCap == 300

\* the text of print("""...""") in the help branch, lines 54-81
HelpText ==
       <<NL>>
    \o <<"C", "o", "n", "f", "i", "g", "u", "r", "a", "t", "i", "o", "n", " ",
         "O", "p", "t", "i", "o", "n", "s", ":", NL>>
    \o <<"-", "-", "-", "-", "-", "-", "-", "-", "-", "-", "-", "-", "-", "-",
         "-", "-", "-", "-", "-", "-", "-", "-", NL>>
    \o <<"C", "o", "m", "m", "a", "n", "d", "-", "L", "i", "n", "e", " ", "A",
         "r", "g", "u", "m", "e", "n", "t", "s", ":", NL>>
    \o <<" ", " ", "-", "-", "c", "o", "n", "f", "i", "g", " ", " ", " ", " ",
         " ", " ", " ", " ", " ", " ", " ", " ", " ", " ", "P", "a", "t", "h",
         " ", "t", "o", " ", "c", "o", "n", "f", "i", "g", ".", "i", "n", "i",
         " ", "f", "i", "l", "e", NL>>
    \o <<" ", " ", "-", "-", "i", "r", "c", "_", "s", "e", "r", "v", "e", "r",
         " ", " ", " ", " ", " ", " ", " ", " ", " ", " ", "I", "R", "C", " ",
         "s", "e", "r", "v", "e", "r", " ", "t", "o", " ", "c", "o", "n", "n",
         "e", "c", "t", " ", "t", "o", NL>>
    \o <<" ", " ", "-", "-", "c", "h", "a", "n", "n", "e", "l", " ", " ", " ",
         " ", " ", " ", " ", " ", " ", " ", " ", " ", " ", "I", "R", "C", " ",
         "c", "h", "a", "n", "n", "e", "l", " ", "t", "o", " ", "j", "o", "i",
         "n", NL>>
    \o <<" ", " ", "-", "-", "m", "o", "d", "e", " ", " ", " ", " ", " ", " ",
         " ", " ", " ", " ", " ", " ", " ", " ", " ", " ", "M", "o", "d", "e",
         " ", "t", "o", " ", "r", "u", "n", ":", " ", "b", "o", "t", " ", "o",
         "r", " ", "c", "l", "i", "e", "n", "t", NL>>
    \o <<" ", " ", "-", "-", "p", "o", "r", "t", " ", " ", " ", " ", " ", " ",
         " ", " ", " ", " ", " ", " ", " ", " ", " ", " ", "P", "o", "r", "t",
         " ", "f", "o", "r", " ", "D", "H", "T", " ", "a", "n", "d", " ", "U",
         "P", "n", "P", NL>>
    \o <<" ", " ", "-", "-", "b", "o", "o", "t", "s", "t", "r", "a", "p", "_",
         "c", "o", "m", "m", "a", "n", "d", " ", " ", " ", "C", "o", "m", "m",
         "a", "n", "d", " ", "f", "o", "r", " ", "b", "o", "o", "t", "s", "t",
         "r", "a", "p", " ", "r", "e", "q", "u", "e", "s", "t", "s", NL>>
    \o <<" ", " ", "-", "-", "d", "e", "b", "u", "g", " ", " ", " ", " ", " ",
         " ", " ", " ", " ", " ", " ", " ", " ", " ", " ", "E", "n", "a", "b",
         "l", "e", " ", "d", "e", "b", "u", "g", " ", "l", "o", "g", "g", "i",
         "n", "g", NL>>
    \o <<NL>>
    \o <<"E", "n", "v", "i", "r", "o", "n", "m", "e", "n", "t", " ", "V", "a",
         "r", "i", "a", "b", "l", "e", "s", ":", NL>>
    \o <<" ", " ", "I", "R", "C", "_", "S", "E", "R", "V", "E", "R", NL>>
    \o <<" ", " ", "I", "R", "C", "_", "C", "H", "A", "N", "N", "E", "L", NL>>
    \o <<" ", " ", "M", "O", "D", "E", NL>>
    \o <<" ", " ", "P", "O", "R", "T", NL>>
    \o <<" ", " ", "B", "O", "O", "T", "S", "T", "R", "A", "P", "_", "C", "O",
         "M", "M", "A", "N", "D", NL>>
    \o <<" ", " ", "D", "E", "B", "U", "G", NL>>
    \o <<NL>>
    \o <<"C", "o", "n", "f", "i", "g", " ", "F", "i", "l", "e", " ", "(", "I",
         "N", "I", ")", " ", "[", "d", "e", "f", "a", "u", "l", "t", " ", "s",
         "e", "c", "t", "i", "o", "n", " ", "e", "x", "p", "e", "c", "t", "e",
         "d", "]", ":", NL>>
    \o <<" ", " ", "i", "r", "c", "_", "s", "e", "r", "v", "e", "r", NL>>
    \o <<" ", " ", "c", "h", "a", "n", "n", "e", "l", NL>>
    \o <<" ", " ", "m", "o", "d", "e", NL>>
    \o <<" ", " ", "p", "o", "r", "t", NL>>
    \o <<" ", " ", "b", "o", "o", "t", "s", "t", "r", "a", "p", "_", "c", "o",
         "m", "m", "a", "n", "d", NL>>
    \o <<" ", " ", "d", "e", "b", "u", "g", NL>>

\* str.lower() on the letters of the ASCII alphabet
UpperChars ==
    <<"A", "B", "C", "D", "E", "F", "G", "H", "I", "J", "K", "L", "M",
      "N", "O", "P", "Q", "R", "S", "T", "U", "V", "W", "X", "Y", "Z">>
LowerChars ==
    <<"a", "b", "c", "d", "e", "f", "g", "h", "i", "j", "k", "l", "m",
      "n", "o", "p", "q", "r", "s", "t", "u", "v", "w", "x", "y", "z">>
LowerChar(c) ==
    IF \E i \in 1..26 : UpperChars[i] = c
    THEN LowerChars[CHOOSE i \in 1..26 : UpperChars[i] = c]
    ELSE c
Lower(s) == [i \in 1..Len(s) |-> LowerChar(s[i])]

\* w in s, for strings
HasSubstring(s, w) ==
    \E i \in 1..(Len(s) - Len(w) + 1) : SubSeq(s, i, i + Len(w) - 1) = w

-----------------------------------------------------------------------------
(* Bounds of the model.                                                    *)

\* the outer retry counter of client_mode saturates here in Spec and SpecLive
MaxOuter == 1
\* the outer retry counter saturates here in SpecRetry
MaxAttempts == 10
\* stale chat connections kept open at once
MaxStale == 1
\* requests the responder has taken up and not seen delivered, at once
MaxInflight == 1
\* peers the responder knows, in SpecReply
MaxKnown == 21
\* length of the peer lists saved in SpecStore
MaxList == 2
\* PRIVMSG events the plugin receives in SpecBot
MaxMessages == 2

-----------------------------------------------------------------------------
(* Node list file: formats written and parsed.                             *)

\* the file: absent, or present with a text
FileAbsent == [exists |-> FALSE, text |-> <<>>]
FileOf(t) == [exists |-> TRUE, text |-> t]

\* update_nodelist: f.write(f"{ip}:{port}\n") for each node
RECURSIVE WriteNodelistNoNewlineRec(_)
WriteNodelistNoNewlineRec(a) ==
    The({IF ns = <<>> THEN <<>>
         ELSE ns[1][1] \o <<":">> \o IntToStr(ns[1][2])
              \o WriteNodelistNoNewlineRec(Tail(ns))
         : ns \in {a}})

WriteNodelistNoNewline(ns) == FileOf(WriteNodelistNoNewlineRec(ns))

RECURSIVE WriteNodelistRec(_)
WriteNodelistRec(a) ==
    The({IF ns = <<>> THEN <<>>
         ELSE ns[1][1] \o <<":">> \o IntToStr(ns[1][2]) \o <<NL>>
              \o WriteNodelistRec(Tail(ns))
         : ns \in {a}})

WriteNodelist(ns) == FileOf(WriteNodelistRec(ns))

\* BootstrapClient.on_message: f.write(entry + '\n') for each entry
RECURSIVE WriteEntriesRec(_)
WriteEntriesRec(a) ==
    The({IF es = <<>> THEN <<>> ELSE es[1] \o <<NL>> \o WriteEntriesRec(Tail(es))
         : es \in {a}})

\* the same write with the file opened for appending
WriteEntriesAppend(old, es) == FileOf(old.text \o WriteEntriesRec(es))

\* open(NODELIST_FILE, 'w') truncates: the old content plays no part
WriteEntries(old, es) == FileOf(WriteEntriesRec(es))

\* BootstrapClient.on_message: data.strip().split()[1:]
ReplyEntries(data) ==
    The({IF parts = <<>> THEN <<>> ELSE Tail(parts) : parts \in {SplitWS(Strip(data))}})

\* bootstrap_from_file: [line.strip().split(':') for line in f if ':' in line]
RECURSIVE ParseLines(_)
ParseLines(a) ==
    The({IF ls = <<>> THEN <<>>
         ELSE (IF Contains(ls[1], ":") THEN <<SplitOn(Strip(ls[1]), ":")>> ELSE <<>>)
              \o ParseLines(Tail(ls))
         : ls \in {a}})

ParseNodes(f) == ParseLines(FileLines(f.text))

\* what one iteration of "for ip, port in nodes" does with an entry:
\* the unpacking raises ValueError outside the try block unless the entry has
\* two parts; int(port) raises inside it; otherwise the address is dialled
EntryKind(e) ==
    IF Len(e) # 2 THEN "unpack_error" ELSE IF ~IsInt(e[2]) THEN "int_error" ELSE "dial"

EntryAddr(e) == <<e[1], ToInt(e[2])>>

\* the backoff delay of both retry loops: min(5 * 2 ** retries, 300)
BackoffUncapped(n) == BackoffBase * Pow2(n)

Backoff(n) == Min(BackoffBase * Pow2(n), BackoffCap)

-----------------------------------------------------------------------------
(* The responder's reply.                                                  *)

RECURSIVE KSubsets(_, _)
KSubsets(S, m) ==
    IF m = 0 THEN {{}}
    ELSE UNION {{T \cup {x} : T \in KSubsets({y \in S : y > x}, m - 1)} : x \in S}

RECURSIVE Pick(_, _, _)
Pick(ns, keep, i) ==
    IF i > Len(ns) THEN <<>>
    ELSE (IF i \in keep THEN <<ns[i]>> ELSE <<>>) \o Pick(ns, keep, i + 1)

\* random.sample(nodes, 19) when len(nodes) > 19: every choice of 19 positions
\* (the order in which random.sample returns them is not modelled)
SamplesNoCap(ns) == {ns}

Samples(ns) ==
    IF Len(ns) > SampleCap
    THEN {Pick(ns, (1..Len(ns)) \ drop, 1) :
              drop \in KSubsets(1..Len(ns), Len(ns) - SampleCap)}
    ELSE {ns}

RECURSIVE FormatAddrs(_)
FormatAddrs(a) ==
    The({IF ns = <<>> THEN <<>>
         ELSE <<ns[1][1] \o <<":">> \o IntToStr(ns[1][2])>> \o FormatAddrs(Tail(ns))
         : ns \in {a}})

\* bootstrap_command + ' ' + ' '.join(ip_port_list)
ReplyText(entries) == bootstrap_command \o <<" ">> \o Join(entries, <<" ">>)

\* the reply of reply_bootstrap: the sampled peers, then the self entry
ReplyData(sample, public_ip, own_port) ==
    ReplyText(FormatAddrs(Append(sample, <<public_ip, own_port>>)))


-----------------------------------------------------------------------------
(* State.                                                                  *)

VARIABLES
    mode,        \* 'bot' or 'client' (resolved configuration)
    port,        \* the module-level port
    pc,          \* where the main coroutine of the process is
    exitKind,    \* how the process ended, "none" while it runs
    registered,  \* atexit.register(lambda: close_port(port)) was executed
    opened,      \* ports passed to open_port, in call order
    closed,      \* ports passed to close_port, in call order
    mapped,      \* the gateway holds the UDP mapping
    file,        \* NODELIST_FILE: FileAbsent or its text
    reachable,   \* addresses whose dht_server.bootstrap does not raise
    nodes,       \* bootstrap_from_file: the parsed list
    idx,         \* bootstrap_from_file: position of the for loop
    dialed,      \* addresses passed to dht_server.bootstrap in this pass
    retries,     \* request_bootstrap_via_irc: retries
    oretries,    \* client_mode: retries
    delay,       \* argument of the asyncio.sleep in progress
    cur,         \* chat connection of the attempt in progress
    future,      \* plugin.future of the attempt in progress
    stale,       \* chat connections of timed-out attempts still open
    requests,    \* bootstrap requests on the channel the responder has not seen
    botTasks,    \* reply_bootstrap tasks created and not finished
    inflight,    \* replies sent and not delivered
    ircOpened,   \* an IrcBot was ever run by this process
    requestSent, \* this process ever broadcast the bootstrap command
    accepted,    \* the message that resolved plugin.future
    dhtUp,       \* dht_server.protocol is set (listen returned)
    saved,       \* SpecStore: the peer list handed to the writer
    loaded,      \* SpecStore: what the loader made of the file
    known,       \* SpecReply: the responder's routing table
    written,     \* this process has written NODELIST_FILE
    live,        \* a responder is on the channel
    inbox,       \* SpecBot: PRIVMSG events the BootstrapBot plugin has yet to handle
    tasks,       \* SpecBot: reply_bootstrap coroutines, running or ended
    outbox,      \* SpecBot: privmsg calls of reply_bootstrap, in call order
    lastWrite,   \* the latest write of NODELIST_FILE: the writer, the list written
    stdout       \* what the help branch printed (other prints are not modelled)

procVars == <<mode, port, live>>
portVars == <<registered, opened, closed, mapped>>
cacheVars == <<nodes, idx, dialed>>
retryVars == <<retries, oretries, delay>>
connVars == <<cur, future, stale>>
netVars == <<requests, botTasks, inflight>>
histVars == <<ircOpened, requestSent, accepted>>
storeVars == <<saved, loaded, known>>
respVars == <<inbox, tasks, outbox>>

vars == <<mode, port, pc, exitKind, registered, opened, closed, mapped, file,
          reachable, nodes, idx, dialed, retries, oretries, delay, cur, future,
          stale, requests, botTasks, inflight, ircOpened, requestSent, accepted,
          dhtUp, saved, loaded, known, written, live, inbox, tasks, outbox,
          lastWrite, stdout>>

None == "none"
NoMessage == [target |-> None, data |-> <<>>, addrs |-> <<>>]
NotLoaded == [done |-> FALSE, error |-> FALSE, addrs |-> <<>>]
NoWrite == [by |-> None, list |-> <<>>]

-----------------------------------------------------------------------------
(* Inputs.                                                                 *)

\* PORT_RANGE = (50000, 60000)
Ports == {50000, 60000}

AddrA == <<<<"a">>, 1>>
AddrB == <<<<"b">>, 2>>
AddrC == <<<<"c", ".", "d">>, 30>>

LineA == <<"a", ":", "1", NL>>
LineB == <<"b", ":", "2", NL>>
LineNoColon == <<"a", "1", NL>>
LineTwoColons == <<"a", ":", "1", ":", "2", NL>>
LineEmptyHost == <<":", "1", NL>>
LineEmptyPort == <<"a", ":", NL>>
LineBadPort == <<"a", ":", "x", NL>>
LineBlank == <<NL>>

\* node list files found at start
InitFiles ==
    {FileAbsent} \cup
    { FileOf(t) : t \in
        { <<>>, LineA, LineB \o LineA, LineA \o LineB,
          LineNoColon \o LineB \o LineBadPort \o LineBlank \o LineEmptyPort
              \o LineEmptyHost \o LineA,
          LineTwoColons \o LineA,
          LineB \o LineTwoColons } }

InitReachable == { {}, {AddrA} }

\* what enumerating dht_server.protocol.router.buckets can give
RouterSnapshots == { <<>>, <<AddrC, AddrA>> }

\* what get_public_ip() can return
PublicIps == { SentinelIp, <<"p">> }

\* the responder's own port
BotPorts == {50001}

\* other traffic seen on the channel: another client's request, chatter
ChannelData == { bootstrap_command, <<"h", "i">> }

Last(s) == s[Len(s)]


-----------------------------------------------------------------------------
(* Process life cycle: argument parsing, atexit hook, port mapping.        *)

InitProcess ==
    /\ mode \in {"bot", "client"}
    /\ port \in Ports
    /\ pc = "boot"
    /\ exitKind = None
    /\ registered = FALSE
    /\ opened = <<>>
    /\ closed = <<>>
    /\ mapped = FALSE
    /\ file \in InitFiles
    /\ reachable \in InitReachable
    /\ mode = "bot" => (file \in {FileAbsent, FileOf(LineA)} /\ reachable = {})
    /\ nodes = <<>>
    /\ idx = 0
    /\ dialed = <<>>
    /\ retries = 0
    /\ oretries = 0
    /\ delay = 0
    /\ cur = None
    /\ future = None
    /\ stale = 0
    /\ requests = {}
    /\ botTasks = {}
    /\ inflight = {}
    /\ ircOpened = FALSE
    /\ requestSent = FALSE
    /\ accepted = NoMessage
    /\ dhtUp = FALSE
    /\ saved = <<>>
    /\ loaded = NotLoaded
    /\ known = <<>>
    /\ written = FALSE
    /\ inbox = {}
    /\ tasks = {}
    /\ outbox = <<>>
    /\ lastWrite = NoWrite
    /\ stdout = <<>>

\* the process starts; a responder is on the channel
Init == InitProcess /\ live = TRUE

\* close_port(port): deleteportmapping may fail, the failure is printed
ClosePort(p) == Append(closed, p)

\* The process is gone: its memory and its sockets with it; what was on its
\* way to or from its connections no longer has a party
Gone ==
    /\ nodes' = <<>>
    /\ idx' = 0
    /\ retries' = 0
    /\ oretries' = 0
    /\ delay' = 0
    /\ cur' = None
    /\ stale' = 0
    /\ dhtUp' = FALSE
    /\ future' = IF future = "done" THEN "done" ELSE None
    /\ requests' = {}
    /\ botTasks' = {}
    /\ inflight' = {}

\* The interpreter exits through its normal shutdown path (sys.exit, an
\* unhandled exception, KeyboardInterrupt): the registered atexit hook runs.
\* The process's sockets are closed with it.
Exit(kind) ==
    /\ pc' = "dead"
    /\ exitKind' = kind
    /\ closed' = IF registered THEN ClosePort(port) ELSE closed
    /\ \E ok \in BOOLEAN : mapped' = (mapped /\ ~(registered /\ ok))
    /\ Gone
    /\ UNCHANGED <<procVars, respVars, lastWrite, registered, opened, file,
                   reachable, dialed, histVars, storeVars, written>>

\* if args.help: print(...); sys.exit(0)  (before atexit.register)
Help ==
    /\ pc = "boot"
    /\ stdout' = HelpText \o <<NL>>
    /\ Exit("help")

\* configuration, globals, atexit.register(lambda: close_port(port))
Startup ==
    /\ pc = "boot"
    /\ pc' = "main"
    /\ registered' = TRUE
    /\ UNCHANGED <<procVars, respVars, stdout, lastWrite, exitKind, opened,
                   closed, mapped, file, reachable, cacheVars, retryVars,
                   connVars, netVars, histVars, dhtUp, storeVars, written>>

\* open_port(port): True when the mapping was added, False on any exception
OpenPort ==
    /\ opened' = Append(opened, port)
    /\ \E ok \in BOOLEAN : mapped' = ok

\* bot_mode: open_port(port), then start_dht()
BotMode ==
    /\ pc = "main"
    /\ mode = "bot"
    /\ OpenPort
    /\ pc' = "start_dht"
    /\ UNCHANGED <<procVars, respVars, stdout, lastWrite, exitKind, registered,
                   closed, file, reachable, cacheVars, retryVars, connVars,
                   netVars, histVars, dhtUp, storeVars, written>>

\* client_mode: retries = 0, open_port(port), then bootstrap_from_file()
ClientMode ==
    /\ pc = "main"
    /\ mode = "client"
    /\ OpenPort
    /\ pc' = "cache"
    /\ oretries' = 0
    /\ UNCHANGED <<procVars, respVars, stdout, lastWrite, exitKind, registered,
                   closed, file, reachable, cacheVars, retries, delay,
                   connVars, netVars, histVars, dhtUp, storeVars, written>>

\* Signals are taken where the process waits: in the blocking calls of
\* open_port and at every await of the main coroutine
Suspended == pc \notin {"boot", "main", "dead"}

\* SIGINT: KeyboardInterrupt unwinds the interpreter, atexit hooks run
Sigint ==
    /\ Suspended
    /\ Exit("sigint")
    /\ UNCHANGED stdout

\* SIGTERM (default disposition): the process is killed, no atexit hook runs
Sigterm ==
    /\ Suspended
    /\ pc' = "dead"
    /\ exitKind' = "sigterm"
    /\ Gone
    /\ UNCHANGED <<procVars, respVars, stdout, lastWrite, portVars, file,
                   reachable, dialed, histVars, storeVars, written>>

-----------------------------------------------------------------------------
(* bootstrap_from_file.                                                    *)

\* not Path(NODELIST_FILE).exists() -> return False; else read and parse
CacheLoad ==
    /\ pc = "cache"
    /\ dialed' = <<>>
    /\ IF ~file.exists
       THEN /\ pc' = "irc"
            /\ retries' = 0
            /\ UNCHANGED <<nodes, idx>>
       ELSE /\ pc' = "cache_iter"
            /\ nodes' = ParseNodes(file)
            /\ idx' = 1
            /\ UNCHANGED retries
    /\ UNCHANGED <<procVars, respVars, stdout, lastWrite, exitKind, portVars,
                   file, reachable, oretries, delay, connVars, netVars,
                   histVars, dhtUp, storeVars, written>>

\* the for loop is exhausted: return False, request_bootstrap_via_irc begins
CacheExhausted ==
    /\ pc = "cache_iter"
    /\ idx > Len(nodes)
    /\ pc' = "irc"
    /\ retries' = 0
    /\ nodes' = <<>>
    /\ idx' = 0
    /\ UNCHANGED <<procVars, respVars, stdout, lastWrite, exitKind, portVars,
                   file, reachable, dialed, oretries, delay, connVars, netVars,
                   histVars, dhtUp, storeVars, written>>

\* "for ip, port in nodes" cannot unpack the entry: ValueError leaves
\* bootstrap_from_file and client_mode, the process ends
CacheUnpackError ==
    /\ pc = "cache_iter"
    /\ idx <= Len(nodes)
    /\ EntryKind(nodes[idx]) = "unpack_error"
    /\ Exit("valueerror")
    /\ UNCHANGED stdout

\* int(port) raises inside the try: continue
CacheSkip ==
    /\ pc = "cache_iter"
    /\ idx <= Len(nodes)
    /\ EntryKind(nodes[idx]) = "int_error"
    /\ idx' = idx + 1
    /\ UNCHANGED <<procVars, respVars, stdout, lastWrite, pc, exitKind,
                   portVars, file, reachable, nodes, dialed, retryVars,
                   connVars, netVars, histVars, dhtUp, storeVars, written>>

\* the same iteration going on to the next entry after a join that succeeded
CacheDialNoStop ==
    /\ pc = "cache_iter"
    /\ idx <= Len(nodes)
    /\ EntryKind(nodes[idx]) = "dial"
    /\ dialed' = Append(dialed, EntryAddr(nodes[idx]))
    /\ idx' = idx + 1
    /\ UNCHANGED <<procVars, respVars, stdout, lastWrite, pc, nodes, exitKind,
                   portVars, file, reachable, retryVars, connVars, netVars,
                   histVars, dhtUp, storeVars, written>>

\* await dht_server.bootstrap([(ip, int(port))]): return True, or continue
CacheDial ==
    /\ pc = "cache_iter"
    /\ idx <= Len(nodes)
    /\ EntryKind(nodes[idx]) = "dial"
    /\ dialed' = Append(dialed, EntryAddr(nodes[idx]))
    /\ IF EntryAddr(nodes[idx]) \in reachable
       THEN /\ pc' = "start_dht"
            /\ nodes' = <<>>
            /\ idx' = 0
       ELSE /\ idx' = idx + 1
            /\ UNCHANGED <<pc, nodes>>
    /\ UNCHANGED <<procVars, respVars, stdout, lastWrite, exitKind, portVars,
                   file, reachable, retryVars, connVars, netVars, histVars,
                   dhtUp, storeVars, written>>


-----------------------------------------------------------------------------
(* request_bootstrap_via_irc and the BootstrapClient plugin.               *)

\* bot = IrcBot(...); bot.run(forever=False); plugin.future is new
IrcConnect ==
    /\ pc = "irc"
    /\ pc' = "wait"
    /\ cur' = "connecting"
    /\ future' = "pending"
    /\ ircOpened' = TRUE
    /\ UNCHANGED <<procVars, respVars, stdout, lastWrite, exitKind, portVars,
                   file, reachable, cacheVars, retryVars, stale, netVars,
                   requestSent, accepted, dhtUp, storeVars, written>>

\* BootstrapClient.connected: self.bot.join(channel)
Connected ==
    /\ cur = "connecting"
    /\ cur' = "joining"
    /\ UNCHANGED <<procVars, respVars, stdout, lastWrite, pc, exitKind,
                   portVars, file, reachable, cacheVars, retryVars, future,
                   stale, netVars, histVars, dhtUp, storeVars, written>>

\* BootstrapClient.joined on the connection in progress (any JOIN seen on
\* the channel runs it): self.bot.privmsg(channel, bootstrap_command)
Joined ==
    /\ cur \in {"joining", "joined"}
    /\ cur' = "joined"
    /\ requests' = requests \cup {"cur"}
    /\ requestSent' = TRUE
    /\ UNCHANGED <<procVars, respVars, stdout, lastWrite, pc, exitKind,
                   portVars, file, reachable, cacheVars, retryVars, future,
                   stale, botTasks, inflight, ircOpened, accepted, dhtUp,
                   storeVars, written>>

\* BootstrapClient.joined on a connection left open by a timed-out attempt
StaleJoined ==
    /\ stale > 0
    /\ requests' = requests \cup {"stale"}
    /\ requestSent' = TRUE
    /\ UNCHANGED <<procVars, respVars, stdout, lastWrite, pc, exitKind,
                   portVars, file, reachable, cacheVars, retryVars, connVars,
                   botTasks, inflight, ircOpened, accepted, dhtUp, storeVars,
                   written>>

\* BootstrapClient.on_message on the connection in progress.  No test of
\* target: channel messages and private messages are handled alike.
OnMessage(target, data, addrs) ==
    /\ StartsWith(data, bootstrap_command)
    /\ file' = WriteEntries(file, ReplyEntries(data))
    /\ written' = TRUE
    /\ lastWrite' = [by |-> "reply", list |-> ReplyEntries(data)]
    /\ future' = "done"
    /\ accepted' = [target |-> target, data |-> data, addrs |-> addrs]
    /\ cur' = None

\* BootstrapClient.on_message of a timed-out attempt: its future is
\* cancelled, so done() holds; the file is written, the connection closed
OnMessageStale(data) ==
    /\ StartsWith(data, bootstrap_command)
    /\ file' = WriteEntries(file, ReplyEntries(data))
    /\ written' = TRUE
    /\ lastWrite' = [by |-> "late", list |-> ReplyEntries(data)]
    /\ stale' = stale - 1

\* a private message reaches the connection in progress
RecvReply ==
    /\ cur = "joined"
    /\ \E m \in inflight :
          /\ m.to = "cur"
          /\ inflight' = inflight \ {m}
          /\ OnMessage("priv", m.data, m.addrs)
    /\ UNCHANGED <<procVars, respVars, stdout, pc, exitKind, portVars,
                   reachable, cacheVars, retryVars, stale, requests, botTasks,
                   ircOpened, requestSent, dhtUp, storeVars>>

\* a channel message reaches the connection in progress
RecvChannel ==
    /\ cur = "joined"
    /\ \E data \in ChannelData :
          IF StartsWith(data, bootstrap_command)
          THEN OnMessage("chan", data, <<>>)
          ELSE UNCHANGED <<file, written, lastWrite, future, accepted, cur>>
    /\ UNCHANGED <<procVars, respVars, stdout, pc, exitKind, portVars,
                   reachable, cacheVars, retryVars, stale, netVars, ircOpened,
                   requestSent, dhtUp, storeVars>>

\* a reply to a timed-out attempt reaches its connection, or finds it gone
RecvLateReply ==
    /\ \E m \in inflight :
          /\ m.to = "stale"
          /\ inflight' = inflight \ {m}
          /\ IF stale > 0
             THEN OnMessageStale(m.data)
             ELSE UNCHANGED <<file, written, lastWrite, stale>>
    /\ UNCHANGED <<procVars, respVars, stdout, pc, exitKind, portVars,
                   reachable, cacheVars, retryVars, cur, future, requests,
                   botTasks, histVars, dhtUp, storeVars>>

\* a channel message reaches a connection of a timed-out attempt
RecvChannelStale ==
    /\ stale > 0
    /\ \E data \in ChannelData :
          IF StartsWith(data, bootstrap_command)
          THEN OnMessageStale(data)
          ELSE UNCHANGED <<file, written, lastWrite, stale>>
    /\ UNCHANGED <<procVars, respVars, stdout, pc, exitKind, portVars,
                   reachable, cacheVars, retryVars, cur, future, netVars,
                   histVars, dhtUp, storeVars>>

\* await asyncio.wait_for(plugin.future, timeout=30) returns: return True
WaitDone ==
    /\ pc = "wait"
    /\ future = "done"
    /\ pc' = "start_dht"
    /\ UNCHANGED <<procVars, respVars, stdout, lastWrite, exitKind, portVars,
                   file, reachable, cacheVars, retryVars, connVars, netVars,
                   histVars, dhtUp, storeVars, written>>

Retag(t) == IF t = "cur" THEN "stale" ELSE t

\* asyncio.TimeoutError: wait_for cancels the future; nothing closes the
\* bot, whose connection stays open (connections beyond MaxStale are taken
\* to be dropped by the server); retries += 1; sleep(min(5 * 2 ** retries, 300))
Timeout ==
    /\ pc = "wait"
    /\ future = "pending"
    /\ future' = "cancelled"
    /\ cur' = None
    /\ stale' = Min(stale + 1, MaxStale)
    /\ requests' = {Retag(t) : t \in requests}
    /\ botTasks' = {Retag(t) : t \in botTasks}
    /\ inflight' = {[m EXCEPT !.to = Retag(m.to)] : m \in inflight}
    /\ retries' = retries + 1
    /\ delay' = Backoff(retries + 1)
    /\ pc' = "inner_sleep"
    /\ UNCHANGED <<procVars, respVars, stdout, lastWrite, exitKind, portVars,
                   file, reachable, cacheVars, oretries, ircOpened,
                   requestSent, accepted, dhtUp, storeVars, written>>

\* the sleep of the inner loop ends: "while retries < 5" is tested again
InnerWake ==
    /\ pc = "inner_sleep"
    /\ retries < FastRetryCeiling
    /\ pc' = "irc"
    /\ UNCHANGED <<procVars, respVars, stdout, lastWrite, exitKind, portVars,
                   file, reachable, cacheVars, retryVars, connVars, netVars,
                   histVars, dhtUp, storeVars, written>>

\* the inner loop returns False; client_mode: while not success:
\* retries += 1; delay = min(5 * 2 ** retries, 300); sleep(delay).
\* The counter is kept up to cap: from there on the delay no longer changes.
OuterSleep(cap) ==
    /\ pc = "inner_sleep"
    /\ retries >= FastRetryCeiling
    /\ oretries' = Min(oretries + 1, cap)
    /\ delay' = Backoff(Min(oretries + 1, cap))
    /\ pc' = "outer_sleep"
    /\ UNCHANGED <<procVars, respVars, stdout, lastWrite, exitKind, portVars,
                   file, reachable, cacheVars, retries, connVars, netVars,
                   histVars, dhtUp, storeVars, written>>

\* the sleep of the outer loop ends: success = await bootstrap_from_file()
OuterWake ==
    /\ pc = "outer_sleep"
    /\ pc' = "cache"
    /\ UNCHANGED <<procVars, respVars, stdout, lastWrite, exitKind, portVars,
                   file, reachable, cacheVars, retryVars, connVars, netVars,
                   histVars, dhtUp, storeVars, written>>

-----------------------------------------------------------------------------
(* start_dht and update_nodelist.                                          *)

\* await dht_server.listen(port)
StartDht ==
    /\ pc = "start_dht"
    /\ dhtUp' = TRUE
    /\ pc' = "refresh"
    /\ UNCHANGED <<procVars, respVars, stdout, lastWrite, exitKind, portVars,
                   file, reachable, cacheVars, retryVars, connVars, netVars,
                   histVars, storeVars, written>>

\* dht_server.listen(port) raises (the UDP port cannot be bound): the
\* exception leaves run_until_complete, the process ends
StartDhtFails ==
    /\ pc = "start_dht"
    /\ Exit("oserror")
    /\ UNCHANGED stdout

\* the same pass without the test "if nodes:"
RefreshTickAlways ==
    /\ pc = "refresh"
    /\ dhtUp
    /\ \E ns \in RouterSnapshots :
          /\ file' = WriteNodelist(ns)
          /\ written' = TRUE
          /\ lastWrite' = [by |-> "refresher", list |-> FormatAddrs(ns)]
    /\ UNCHANGED <<procVars, respVars, stdout, pc, exitKind, portVars,
                   reachable, cacheVars, retryVars, connVars, netVars,
                   histVars, dhtUp, storeVars>>

\* one pass of the while True loop of update_nodelist
RefreshTick ==
    /\ pc = "refresh"
    /\ dhtUp
    /\ \E ns \in RouterSnapshots :
          IF ns # <<>>
          THEN /\ file' = WriteNodelist(ns)
               /\ written' = TRUE
               /\ lastWrite' = [by |-> "refresher", list |-> FormatAddrs(ns)]
          ELSE UNCHANGED <<file, written, lastWrite>>
    /\ UNCHANGED <<procVars, respVars, stdout, pc, exitKind, portVars,
                   reachable, cacheVars, retryVars, connVars, netVars,
                   histVars, dhtUp, storeVars>>

-----------------------------------------------------------------------------
(* The responder (a peer process in bot mode): BootstrapBot.               *)

\* BootstrapBot.on_message: data.strip() == bootstrap_command ->
\* asyncio.create_task(self.reply_bootstrap(mask.nick))
BotOnMessage ==
    /\ live
    /\ Cardinality(botTasks) + Cardinality(inflight) < MaxInflight
    /\ \E r \in requests :
          /\ requests' = requests \ {r}
          /\ botTasks' = botTasks \cup {r}
    /\ UNCHANGED <<procVars, respVars, stdout, lastWrite, pc, exitKind,
                   portVars, file, reachable, cacheVars, retryVars, connVars,
                   inflight, histVars, dhtUp, storeVars, written>>

\* reply_bootstrap with the listener initialised: enumerate, sample, append
\* the self entry, privmsg(nick, ...)
BotReply(tables, ips) ==
    /\ \E t \in botTasks, ns \in tables, ip \in ips, bp \in BotPorts :
          \E sample \in Samples(ns) :
             /\ botTasks' = botTasks \ {t}
             /\ inflight' = inflight \cup
                   {[to |-> t, data |-> ReplyData(sample, ip, bp),
                     addrs |-> Append(sample, <<ip, bp>>)]}
    /\ UNCHANGED <<procVars, respVars, stdout, lastWrite, pc, exitKind,
                   portVars, file, reachable, cacheVars, retryVars, connVars,
                   requests, histVars, dhtUp, storeVars, written>>

-----------------------------------------------------------------------------

(* AcquisitionState of the design, read off the state of client_mode.     *)
AcqState ==
    IF mode # "client" THEN None
    ELSE IF pc \in {"cache", "cache_iter"} THEN "TryingCache"
    ELSE IF pc = "irc" THEN "RequestingRendezvous"
    ELSE IF pc = "wait" THEN
        (IF future = "done" THEN "Succeeded"
         ELSE IF cur = "joined" THEN "WaitingReply"
         ELSE "RequestingRendezvous")
    ELSE IF pc \in {"inner_sleep", "outer_sleep"} THEN "BackingOff"
    ELSE IF pc \in {"start_dht", "refresh"} THEN "Succeeded"
    ELSE None

Next ==
    \/ Help
    \/ Startup
    \/ BotMode
    \/ ClientMode
    \/ Sigint
    \/ Sigterm
    \/ CacheLoad
    \/ CacheExhausted
    \/ CacheUnpackError
    \/ CacheSkip
    \/ CacheDial
    \/ IrcConnect
    \/ Connected
    \/ Joined
    \/ StaleJoined
    \/ RecvReply
    \/ RecvChannel
    \/ RecvLateReply
    \/ RecvChannelStale
    \/ WaitDone
    \/ Timeout
    \/ InnerWake
    \/ OuterSleep(MaxOuter)
    \/ OuterWake
    \/ StartDht
    \/ StartDhtFails
    \/ RefreshTick
    \/ BotOnMessage
    \/ BotReply(RouterSnapshots, {SentinelIp})

Spec == Init /\ [][Next]_vars


-----------------------------------------------------------------------------
(* SpecRetry: the client alone: no address of the file can be joined and   *)
(* nobody answers on the channel.                                          *)

InitRetry ==
    /\ InitProcess
    /\ mode = "client"
    /\ port = 50000
    /\ reachable = {}
    /\ live = FALSE

NextRetry ==
    \/ Startup
    \/ ClientMode
    \/ CacheLoad
    \/ CacheExhausted
    \/ CacheUnpackError
    \/ CacheSkip
    \/ CacheDial
    \/ IrcConnect
    \/ Connected
    \/ Joined
    \/ Timeout
    \/ InnerWake
    \/ OuterSleep(MaxAttempts)
    \/ OuterWake

\* the event loop runs whatever is ready: a step that can be taken is taken
SpecRetry == InitRetry /\ [][NextRetry]_vars /\ WF_vars(NextRetry)

-----------------------------------------------------------------------------
(* SpecLive: the client and a responder that comes to the channel and,     *)
(* once there, answers every request before the wait times out.            *)

InitLive ==
    /\ InitProcess
    /\ mode = "client"
    /\ port = 50000
    /\ live = FALSE

\* nothing of the attempt in progress is on its way to or from the responder
NothingPending ==
    /\ cur = "joined"
    /\ "cur" \notin requests \cup botTasks
    /\ \A m \in inflight : m.to # "cur"

\* the wait times out only when no responder is there to answer in time
TimeoutLive ==
    /\ ~live \/ NothingPending
    /\ Timeout

\* a responder joins the channel; it has seen none of the earlier requests
ResponderJoins ==
    /\ ~live
    /\ live' = TRUE
    /\ requests' = {}
    /\ UNCHANGED <<mode, port, respVars, stdout, lastWrite, pc, exitKind,
                   portVars, file, reachable, cacheVars, retryVars, connVars,
                   botTasks, inflight, histVars, dhtUp, storeVars, written>>

NextLive ==
    \/ Startup
    \/ ClientMode
    \/ CacheLoad
    \/ CacheExhausted
    \/ CacheUnpackError
    \/ CacheSkip
    \/ CacheDial
    \/ IrcConnect
    \/ Connected
    \/ Joined
    \/ TimeoutLive
    \/ InnerWake
    \/ OuterSleep(MaxOuter)
    \/ OuterWake
    \/ ResponderJoins
    \/ BotOnMessage
    \/ BotReply(RouterSnapshots, {SentinelIp})
    \/ RecvReply
    \/ WaitDone
    \/ StartDht

SpecLive == InitLive /\ [][NextLive]_vars /\ WF_vars(NextLive)

-----------------------------------------------------------------------------
(* SpecReply: reply_bootstrap over routing tables of every size.           *)

\* a routing table of k peers; the second is a second node of the first's
\* address (the table is not deduplicated by address)
KnownPeers(k) == [i \in 1..k |-> <<<<"n">>, IF i = 2 THEN 1 ELSE i>>]

InitReply ==
    /\ mode = "bot"
    /\ port = 50000
    /\ pc = "refresh"
    /\ exitKind = None
    /\ registered = TRUE
    /\ opened = <<50000>>
    /\ closed = <<>>
    /\ mapped = TRUE
    /\ file = FileAbsent
    /\ reachable = {}
    /\ nodes = <<>>
    /\ idx = 0
    /\ dialed = <<>>
    /\ retries = 0
    /\ oretries = 0
    /\ delay = 0
    /\ cur = None
    /\ future = None
    /\ stale = 0
    /\ requests = {"cur"}
    /\ botTasks = {}
    /\ inflight = {}
    /\ ircOpened = FALSE
    /\ requestSent = FALSE
    /\ accepted = NoMessage
    /\ dhtUp = TRUE
    /\ saved = <<>>
    /\ loaded = NotLoaded
    /\ known \in {KnownPeers(k) : k \in 0..MaxKnown}
    /\ written = FALSE
    /\ inbox = {}
    /\ tasks = {}
    /\ outbox = <<>>
    /\ lastWrite = NoWrite
    /\ stdout = <<>>
    /\ live = TRUE

NextReply ==
    \/ BotOnMessage
    \/ BotReply({known}, PublicIps)

SpecReply == InitReply /\ [][NextReply]_vars

-----------------------------------------------------------------------------
(* SpecBot: the BootstrapBot plugin, event by event.  Every PRIVMSG the    *)
(* connection sees runs on_message; a matching one starts a reply_bootstrap *)
(* coroutine, which waits for dht_server.protocol and then replies.  The   *)
(* plugin is taken with every state of the listener its code provides for: *)
(* requests may reach it before dht_server.listen has returned.            *)

Channel == "#soulfire"
BotNick == "bot"

\* messages of other users: a request on the channel, a request sent in
\* private with blanks around it, chatter, a longer word that begins with
\* the command, a message shaped like a reply
BotMessages ==
    { [nick |-> "alice", target |-> Channel, data |-> bootstrap_command],
      [nick |-> "bob", target |-> BotNick,
       data |-> <<" ">> \o bootstrap_command \o <<" ", NL>>],
      [nick |-> "alice", target |-> Channel, data |-> <<"h", "i">>],
      [nick |-> "bob", target |-> Channel, data |-> bootstrap_command \o <<"x">>],
      [nick |-> "bob", target |-> Channel,
       data |-> bootstrap_command \o <<" ", "a", ":", "1">>] }

InitBot ==
    /\ mode = "bot"
    /\ port = 50001
    /\ pc \in {"start_dht", "refresh"}
    /\ dhtUp = (pc = "refresh")
    /\ exitKind = None
    /\ registered = TRUE
    /\ opened = <<50001>>
    /\ closed = <<>>
    /\ mapped = TRUE
    /\ file = FileAbsent
    /\ reachable = {}
    /\ nodes = <<>>
    /\ idx = 0
    /\ dialed = <<>>
    /\ retries = 0
    /\ oretries = 0
    /\ delay = 0
    /\ cur = None
    /\ future = None
    /\ stale = 0
    /\ requests = {}
    /\ botTasks = {}
    /\ inflight = {}
    /\ ircOpened = TRUE
    /\ requestSent = FALSE
    /\ accepted = NoMessage
    /\ saved = <<>>
    /\ loaded = NotLoaded
    /\ known = <<>>
    /\ written = FALSE
    /\ live = TRUE
    /\ inbox = <<>>
    /\ tasks = {}
    /\ outbox = <<>>
    /\ lastWrite = NoWrite
    /\ stdout = <<>>

botFrame ==
    <<procVars, pc, exitKind, portVars, file, reachable, cacheVars, retryVars,
      connVars, netVars, histVars, dhtUp, storeVars, written, lastWrite,
      stdout>>

\* if data.strip() == bootstrap_command
BotMatchesPrefix(data) == StartsWith(data, bootstrap_command)

BotMatches(data) == Strip(data) = bootstrap_command

\* self.reply_bootstrap(mask.nick): the reply goes to the sender
ReplyToTarget(m) == m.target

ReplyTo(m) == m.nick

\* BootstrapBot.on_message for one PRIVMSG event
BotPrivmsg(m, origin) ==
    /\ Len(inbox) < MaxMessages
    /\ inbox' = Append(inbox, [nick |-> m.nick, target |-> m.target,
                               data |-> m.data, origin |-> origin])
    /\ tasks' = IF BotMatches(m.data)
                THEN tasks \cup {[id |-> Len(inbox) + 1, nick |-> ReplyTo(m),
                                  polls |-> 0, st |-> "polling"]}
                ELSE tasks
    /\ UNCHANGED <<botFrame, outbox>>

\* a message of another user reaches the plugin
BotReceive == \E m \in BotMessages : BotPrivmsg(m, "client")

\* a reply reaches a process that runs the plugin: its requester is one
BotReceiveReply ==
    \E i \in 1..Len(outbox) :
        BotPrivmsg([nick |-> BotNick, target |-> outbox[i].to,
                    data |-> outbox[i].data], "responder")

\* reply_bootstrap: protocol is None and retries < 5: sleep(1); retries += 1
BotPoll(t) ==
    /\ t.st = "polling"
    /\ ~dhtUp
    /\ t.polls < PollCeiling
    /\ tasks' = (tasks \ {t}) \cup {[t EXCEPT !.polls = t.polls + 1]}
    /\ UNCHANGED <<botFrame, inbox, outbox>>

\* the same give-up with a reply that carries no entry
BotGiveUpBareReply(t) ==
    /\ t.st = "polling"
    /\ ~dhtUp
    /\ t.polls >= PollCeiling
    /\ tasks' = (tasks \ {t}) \cup {[t EXCEPT !.st = "gave_up"]}
    /\ outbox' = Append(outbox, [to |-> t.nick, data |-> bootstrap_command,
                                 cause |-> t.id])
    /\ UNCHANGED <<botFrame, inbox>>

\* reply_bootstrap: the loop is left with protocol still None: warning, return
BotGiveUp(t) ==
    /\ t.st = "polling"
    /\ ~dhtUp
    /\ t.polls >= PollCeiling
    /\ tasks' = (tasks \ {t}) \cup {[t EXCEPT !.st = "gave_up"]}
    /\ UNCHANGED <<botFrame, inbox, outbox>>

\* reply_bootstrap with protocol set: enumerate, sample, get_public_ip,
\* privmsg(nick, bootstrap_command + ' ' + ' '.join(ip_port_list))
BotSend(t) ==
    /\ t.st = "polling"
    /\ dhtUp
    /\ \E ns \in RouterSnapshots, ip \in PublicIps :
          \E sample \in Samples(ns) :
             outbox' = Append(outbox, [to |-> t.nick,
                                       data |-> ReplyData(sample, ip, port),
                                       cause |-> t.id])
    /\ tasks' = (tasks \ {t}) \cup {[t EXCEPT !.st = "replied"]}
    /\ UNCHANGED <<botFrame, inbox>>

NextBot ==
    \/ BotReceive
    \/ BotReceiveReply
    \/ \E t \in tasks : BotPoll(t)
    \/ \E t \in tasks : BotGiveUp(t)
    \/ \E t \in tasks : BotSend(t)
    \/ StartDht

SpecBot == InitBot /\ [][NextBot]_vars

-----------------------------------------------------------------------------
(* SpecStore: a peer list is written to the node list file, by the         *)
(* refresher or by the reply handler, and read back by a cache pass.       *)

StoreAddrs ==
    { <<<<"a">>, 0>>,
      <<<<"1", "0", ".", "5">>, 51000>>,
      <<<<"b", "-", "c">>, 65535>>,
      <<<<"9">>, 7>> }

RECURSIVE ListsUpTo(_)
ListsUpTo(n) ==
    IF n = 0 THEN {<<>>}
    ELSE LET shorter == ListsUpTo(n - 1)
         IN shorter \cup {Append(l, a) : l \in {x \in shorter : Len(x) = n - 1},
                                          a \in StoreAddrs}

InitStore ==
    /\ mode = "client"
    /\ port = 50000
    /\ pc = "store_new"
    /\ exitKind = None
    /\ registered = TRUE
    /\ opened = <<50000>>
    /\ closed = <<>>
    /\ mapped = TRUE
    /\ file \in {FileAbsent, FileOf(LineA)}
    /\ reachable = {}
    /\ nodes = <<>>
    /\ idx = 0
    /\ dialed = <<>>
    /\ retries = 0
    /\ oretries = 0
    /\ delay = 0
    /\ cur = None
    /\ future = None
    /\ stale = 0
    /\ requests = {}
    /\ botTasks = {}
    /\ inflight = {}
    /\ ircOpened = FALSE
    /\ requestSent = FALSE
    /\ accepted = NoMessage
    /\ dhtUp = TRUE
    /\ saved \in ListsUpTo(MaxList)
    /\ loaded = NotLoaded
    /\ known = <<>>
    /\ written = FALSE
    /\ inbox = {}
    /\ tasks = {}
    /\ outbox = <<>>
    /\ lastWrite = NoWrite
    /\ stdout = <<>>
    /\ live = TRUE

storeFrame ==
    <<procVars, respVars, stdout, exitKind, portVars, reachable, cacheVars, retryVars, connVars,
      netVars, histVars, dhtUp, saved, known>>

\* update_nodelist with the router holding the list: "if nodes:" then write
StoreByRefresher ==
    /\ pc = "store_new"
    /\ saved # <<>>
    /\ file' = WriteNodelist(saved)
    /\ written' = TRUE
    /\ lastWrite' = [by |-> "refresher", list |-> FormatAddrs(saved)]
    /\ pc' = "stored_refresher"
    /\ UNCHANGED <<storeFrame, loaded>>

\* BootstrapClient.on_message with a reply that carries the list
StoreByReply ==
    /\ pc = "store_new"
    /\ StartsWith(ReplyText(FormatAddrs(saved)), bootstrap_command)
    /\ file' = WriteEntries(file, ReplyEntries(ReplyText(FormatAddrs(saved))))
    /\ written' = TRUE
    /\ lastWrite' = [by |-> "reply",
                     list |-> ReplyEntries(ReplyText(FormatAddrs(saved)))]
    /\ pc' = "stored_reply"
    /\ UNCHANGED <<storeFrame, loaded>>

\* the addresses bootstrap_from_file dials when every join fails, up to
\* the entry (if any) at which the unpacking raises
RECURSIVE DialAll(_)
DialAll(es) ==
    IF es = <<>> THEN [error |-> FALSE, addrs |-> <<>>]
    ELSE IF EntryKind(es[1]) = "unpack_error" THEN [error |-> TRUE, addrs |-> <<>>]
    ELSE LET rest == DialAll(Tail(es))
         IN IF EntryKind(es[1]) = "int_error" THEN rest
            ELSE [error |-> rest.error, addrs |-> <<EntryAddr(es[1])>> \o rest.addrs]

\* bootstrap_from_file over the file just written, every join failing
StoreLoad ==
    /\ pc \in {"stored_refresher", "stored_reply"}
    /\ pc' = IF pc = "stored_reply" THEN "loaded_reply" ELSE "loaded_refresher"
    /\ loaded' = IF ~file.exists
                 THEN [done |-> TRUE, error |-> FALSE, addrs |-> <<>>]
                 ELSE [done |-> TRUE,
                       error |-> DialAll(ParseNodes(file)).error,
                       addrs |-> DialAll(ParseNodes(file)).addrs]
    /\ UNCHANGED <<storeFrame, file, written, lastWrite>>

NextStore ==
    \/ StoreByRefresher
    \/ StoreByReply
    \/ StoreLoad

SpecStore == InitStore /\ [][NextStore]_vars

-----------------------------------------------------------------------------
(* Claims checked under Spec.                                              *)

\* a line of the node list file that is a peer address: host and port,
\* both non-empty, the port numeric
WellFormed(e) == Len(e) = 2 /\ e[1] # <<>> /\ e[2] # <<>> /\ IsInt(e[2])

RECURSIVE WellFormedAddrs(_)
WellFormedAddrs(es) ==
    IF es = <<>> THEN <<>>
    ELSE (IF WellFormed(es[1]) THEN <<EntryAddr(es[1])>> ELSE <<>>)
         \o WellFormedAddrs(Tail(es))

ReachableIn(es) ==
    \E i \in 1..Len(es) : WellFormed(es[i]) /\ EntryAddr(es[i]) \in reachable

\* C1: in every run in which open_port was called, close_port is called
\* exactly once before the process is gone, with the port passed to open_port,
\* whichever way the process ends; and close_port is not called in a run
\* without open_port.
C1_PortTeardown ==
    pc = "dead" =>
        IF opened # <<>> THEN closed = <<opened[1]>> ELSE closed = <<>>

\* C2: a client whose node list file (as found: not yet written by the
\* process) holds an address whose join succeeds gets to Succeeded through
\* the cache pass: it never runs an IrcBot, never
\* broadcasts the bootstrap command, and its cache pass does not end otherwise.
C2_CacheFirst ==
    (mode = "client" /\ ~written /\ ReachableIn(ParseNodes(file))) =>
        /\ ~ircOpened
        /\ ~requestSent
        /\ exitKind # "valueerror"
        /\ pc \notin {"irc", "wait", "inner_sleep", "outer_sleep"}

\* the addresses a cache pass would dial from a file, were every join to fail
StoredAddrs(f) == WellFormedAddrs(ParseNodes(f))

\* C3: the cache pass does not end in an error; the acquisition state leaves
\* TryingCache only for RequestingRendezvous (or Succeeded),
\* RequestingRendezvous only for WaitingReply (or BackingOff),
\* and a reply makes it Succeeded only from WaitingReply; a reply delivered
\* while waiting always does; and at the step that makes it Succeeded the node
\* list file holds exactly the addresses of that reply, in reply order,
\* whatever it held before.
C3_Step ==
    /\ AcqState = "TryingCache" => exitKind' # "valueerror"
    /\ (AcqState = "TryingCache" /\ AcqState' \notin {"TryingCache", None})
          => AcqState' \in {"RequestingRendezvous", "Succeeded"}
    /\ (AcqState = "TryingCache" /\ AcqState' = "RequestingRendezvous")
          => dialed' = dialed /\ \A i \in 1..Len(dialed) : dialed[i] \notin reachable
    /\ (AcqState = "RequestingRendezvous"
            /\ AcqState' \notin {"RequestingRendezvous", None})
          => AcqState' \in {"WaitingReply", "BackingOff"}
    /\ (AcqState = "WaitingReply" /\ AcqState' \notin {"WaitingReply", None})
          => AcqState' \in {"Succeeded", "BackingOff"}
    /\ (accepted' # accepted)
          => /\ AcqState = "WaitingReply"
             /\ AcqState' = "Succeeded"
             /\ file'.exists
             /\ StoredAddrs(file') = accepted'.addrs
             /\ FileLines(file'.text) =
                    [i \in 1..Len(accepted'.addrs) |->
                        FormatAddrs(accepted'.addrs)[i] \o <<NL>>]
    /\ (pc' = "wait" /\ cur = "joined"
            /\ \E m \in inflight : m.to = "cur" /\ inflight' = inflight \ {m})
          => /\ AcqState' = "Succeeded"
             /\ accepted' # accepted

C3_Fallback == [][C3_Step]_vars

\* C3 witness: the stale entry dialled in the cache pass is gone, the file holds the
\* reply's two peers and the responder, after one attempt without a timeout
C3_Witness ==
    /\ AcqState = "Succeeded"
    /\ accepted.target = "priv"
    /\ retries = 0
    /\ oretries = 0
    /\ dialed = <<AddrA>>
    /\ Len(accepted.addrs) = 3
    /\ StoredAddrs(file) = accepted.addrs

\* C4: the client gets to Succeeded through the rendezvous path only by a
\* private message to it that carries at least one peer address.
C4_ReplyAddressed ==
    accepted # NoMessage =>
        /\ accepted.target = "priv"
        /\ ReplyEntries(accepted.data) # <<>>

\* C10: a cache pass never aborts on a malformed line: while it runs, the
\* addresses dialled so far are exactly the well-formed entries among the
\* lines passed, in file order.
C10_MalformedTolerance ==
    /\ exitKind # "valueerror"
    /\ pc = "cache_iter" =>
          dialed = WellFormedAddrs(SubSeq(nodes, 1, Min(idx - 1, Len(nodes))))


-----------------------------------------------------------------------------
(* Claims checked under SpecRetry.                                         *)

\* C5: with every join failing and every wait timing out the client never
\* ends and never gives up: again and again it makes a cache pass and a
\* rendezvous attempt, also after the fast-retry ceiling is exhausted.
C5_UnboundedRetry ==
    /\ [](pc # "dead")
    /\ []<>(AcqState = "TryingCache")
    /\ []<>(AcqState = "RequestingRendezvous")

\* the delays of the claim, for attempt n = 1..10 and beyond
BackoffTable == <<10, 20, 40, 80, 160, 300, 300, 300, 300, 300>>
TableDelay(n) == IF n <= Len(BackoffTable) THEN BackoffTable[n] ELSE 300

\* C8: the delay slept after the n-th timeout of the fast-retry loop, and in
\* the n-th iteration of the outer loop, is min(5 * 2^n, 300): 10, 20, 40,
\* 80, 160, then 300; no sleep is longer than 300.
C8_Backoff ==
    /\ pc = "inner_sleep" => (retries >= 1 /\ delay = TableDelay(retries))
    /\ pc = "outer_sleep" => (oretries >= 1 /\ delay = TableDelay(oretries))
    /\ delay <= 300

\* C8 witness: the tenth iteration of the outer loop sleeps 300
C8_Witness == pc = "outer_sleep" /\ oretries = 10 /\ delay = 300

-----------------------------------------------------------------------------
(* Claims checked under SpecLive.                                          *)

\* C6: once a responder is on the channel and answers in time, the client
\* eventually is Succeeded, wherever its retry machine stands.
C6_EventualSuccess == live ~> (AcqState = "Succeeded")

-----------------------------------------------------------------------------
(* Claims checked under SpecReply.                                         *)

Count(x, seq) == Cardinality({i \in 1..Len(seq) : seq[i] = x})

SelfEntries == {ip \o <<":">> \o IntToStr(bp) : ip \in PublicIps, bp \in BotPorts}

\* C7: after the command token a reply carries min(k, 19) entries, each a
\* known peer used no more often than the table holds it, then the self
\* entry: 20 entries when k > 19, all k peers in table order plus the self
\* entry when k <= 19, never more than 20.
C7_SamplingCap ==
    \A m \in inflight :
        LET es == ReplyEntries(m.data)
            k == Len(known)
            n == IF k < 19 THEN k ELSE 19
            peers == SubSeq(es, 1, Len(es) - 1)
        IN /\ StartsWith(m.data, bootstrap_command)
           /\ Len(es) = n + 1
           /\ Len(es) <= 20
           /\ k > 19 => Len(es) = 20
           /\ Last(es) \in SelfEntries
           /\ \A i \in 1..Len(peers) :
                 Count(peers[i], peers) <= Count(peers[i], FormatAddrs(known))
           /\ k <= 19 => peers = FormatAddrs(known)

\* C7 witness: a reply of 20 entries from a table of 21 peers
C7_Witness ==
    \E m \in inflight : Len(known) = 21 /\ Len(ReplyEntries(m.data)) = 20

-----------------------------------------------------------------------------
(* Claims checked under SpecStore.                                         *)

\* C9: a list of well-formed addresses written to the node list file, by the
\* refresher or by the reply handler, is read back as the same addresses in
\* the same order, and the reading does not fail.
C9_RoundTrip ==
    loaded.done => (~loaded.error /\ loaded.addrs = saved)

\* C9 witness: two different addresses written by the reply handler over an
\* older file and read back
C9_Witness ==
    /\ pc = "loaded_reply"
    /\ Len(saved) = 2
    /\ saved[1] # saved[2]
    /\ loaded.addrs = saved


-----------------------------------------------------------------------------
(* Claims about the help branch, checked under Spec.                       *)

\* the exit status of the process, by the way it ended: sys.exit(0) in the
\* help branch, an unhandled exception, KeyboardInterrupt, SIGTERM
ExitStatus(kind) ==
    IF kind = "help" THEN 0
    ELSE IF kind \in {"valueerror", "oserror"} THEN 1
    ELSE IF kind = "sigint" THEN 130
    ELSE 143

UsageWord == <<"u", "s", "a", "g", "e">>

\* C12: the run with --help prints a usage text ("usage" is in the lowered
\* output, as the tests assert) and ends with status 0, before any port
\* mapping is requested, any IrcBot is run and the DHT listener is started.
C12_Step ==
    (exitKind # "help" /\ exitKind' = "help") =>
        /\ HasSubstring(Lower(stdout'), UsageWord)
        /\ ExitStatus(exitKind') = 0
        /\ opened' = <<>>
        /\ closed' = <<>>
        /\ ~mapped'
        /\ ~registered
        /\ ~ircOpened'
        /\ ~requestSent'
        /\ ~dhtUp

C12_HelpExit == [][C12_Step]_vars


-----------------------------------------------------------------------------
(* Claims about the responder plugin, checked under SpecBot.               *)

Causes(id) == { i \in 1..Len(outbox) : outbox[i].cause = id }

\* C11: the responder sends a reply only for a message whose body, trimmed
\* of surrounding whitespace, is exactly the bootstrap command; every other
\* message starts no reply.  Each request gets at most one reply, and the
\* reply is sent in private to the nick that sent the request, never to the
\* channel.
C11_ReplyOnlyToRequester ==
    /\ \A t \in tasks : Strip(inbox[t.id].data) = bootstrap_command
    /\ \A i \in 1..Len(outbox) :
          /\ outbox[i].cause \in 1..Len(inbox)
          /\ Strip(inbox[outbox[i].cause].data) = bootstrap_command
          /\ outbox[i].to = inbox[outbox[i].cause].nick
          /\ outbox[i].to # Channel
          /\ Causes(outbox[i].cause) = {i}

C11_Witness ==
    /\ Len(outbox) = 1
    /\ \E i \in 1..Len(inbox) :
          /\ inbox[i].target = Channel
          /\ Strip(inbox[i].data) = bootstrap_command
          /\ Causes(i) # {}
    /\ \E i \in 1..Len(inbox) :
          /\ StartsWith(inbox[i].data, bootstrap_command)
          /\ Causes(i) = {}
          /\ \A t \in tasks : t.id # i


TaskOf(ts, id) == { t \in ts : t.id = id }

FullReplies ==
    { ReplyText(FormatAddrs(ns) \o <<self>>) :
          ns \in RouterSnapshots, self \in SelfEntries }

\* C16: a reply_bootstrap coroutine started while the listener is
\* uninitialised polls at most 5 times.  It replies only in a step taken
\* with the listener initialised, and then with a full reply (the peers and
\* the self entry); it gives up only after 5 polls with the listener still
\* uninitialised, and then sends nothing.  No reply is empty or partial:
\* every reply sent ends with the self entry.
C16_Step ==
    /\ \A t \in tasks' : t.polls <= 5
    /\ outbox' # outbox =>
          LET es == ReplyEntries(outbox'[Len(outbox')].data)
          IN /\ outbox' = Append(outbox, outbox'[Len(outbox')])
             /\ outbox'[Len(outbox')].data \in FullReplies
             /\ es # <<>>
             /\ es[Len(es)] \in SelfEntries
    /\ \A t \in tasks : \A u \in TaskOf(tasks', t.id) :
          /\ (t.st = "polling" /\ u.st = "gave_up") =>
                 /\ ~dhtUp
                 /\ t.polls = 5
                 /\ outbox' = outbox
          /\ (t.st = "polling" /\ u.st = "replied") =>
                 /\ dhtUp
                 /\ Len(outbox') = Len(outbox) + 1
                 /\ outbox'[Len(outbox')].cause = t.id
          /\ (t.st = "polling" /\ dhtUp) => u.st # "gave_up"
          /\ t.st # "polling" => u = t
          /\ u.polls \in {t.polls, t.polls + 1}
          /\ u.polls # t.polls => ~dhtUp
    /\ \A t \in tasks' : t.st = "gave_up" => Causes(t.id)' = {}

C16_InitWait == [][C16_Step]_vars

C16_Witness ==
    /\ \E t \in tasks : t.st = "gave_up" /\ t.polls = 5 /\ Causes(t.id) = {}
    /\ \E t \in tasks : t.st = "replied" /\ t.polls \in 1..4 /\ Causes(t.id) # {}


RequestsReceived ==
    { i \in 1..Len(inbox) :
          inbox[i].origin = "client" /\ Strip(inbox[i].data) = bootstrap_command }

\* C20: a reply sent by a responder is never taken for a bootstrap request
\* by a responder: it has at least one address after the command, so its
\* trimmed body is not the command and no reply is started for it.  The
\* replies sent never outnumber the requests the responders received.
C20_NoReplyLoop ==
    /\ \A i \in 1..Len(outbox) :
          /\ Strip(outbox[i].data) # bootstrap_command
          /\ ReplyEntries(outbox[i].data) # <<>>
    /\ \A i \in 1..Len(inbox) :
          inbox[i].origin = "responder" =>
              /\ TaskOf(tasks, i) = {}
              /\ Causes(i) = {}
    /\ Len(outbox) <= Cardinality(RequestsReceived)

C20_Witness ==
    /\ Len(inbox) = 2
    /\ inbox[2].origin = "responder"
    /\ inbox[2].data = outbox[1].data
    /\ \A t \in tasks : t.st = "replied"
    /\ Len(outbox) = 1


-----------------------------------------------------------------------------
(* Claims about the acquirer's connections and the file, checked under     *)
(* Spec.                                                                   *)

\* IrcBot objects of request_bootstrap_via_irc that have not quit
OpenSessions == (IF cur # None THEN 1 ELSE 0) + stale

\* C13: the session of an attempt that timed out is torn down before the
\* next attempt connects: the acquirer never holds more than one chat
\* session that has not quit.
C13_OneSession == OpenSessions <= 1


\* C14: a refresher tick overwrites the file only when the listener is
\* initialised and the enumeration of the routing table is not empty;
\* otherwise the file is left as it is.  The refresher never replaces a
\* non-empty cache by an empty one: what it writes has at least one line.
C14_Step ==
    (lastWrite'.by = "refresher" /\ (file' # file \/ lastWrite' # lastWrite)) =>
        /\ dhtUp
        /\ lastWrite'.list # <<>>
        /\ file'.exists
        /\ FileLines(file'.text) # <<>>
        /\ \E ns \in RouterSnapshots : ns # <<>> /\ file' = WriteNodelist(ns)

C14_EmptySkip == [][C14_Step]_vars

C14_Witness ==
    /\ lastWrite.by = "refresher"
    /\ accepted # NoMessage
    /\ file = WriteNodelist(<<AddrC, AddrA>>)
    /\ file # WriteEntries(FileAbsent, ReplyEntries(accepted.data))


LinesOf(list) == [i \in 1..Len(list) |-> list[i] \o <<NL>>]

\* C17: every write of the file, by a reply handler (of the attempt in
\* progress or of a timed-out one) or by the refresher, in any order, is a
\* full overwrite: after it the file holds exactly the list of the latest
\* write, one entry per line, with nothing of an earlier write and nothing
\* cut off.
C17_LastWriterWins ==
    written =>
        /\ lastWrite.by \in {"reply", "late", "refresher"}
        /\ file.exists
        /\ FileLines(file.text) = LinesOf(lastWrite.list)

C17_Witness ==
    /\ lastWrite.by = "late"
    /\ lastWrite.list # <<>>
    /\ pc = "refresh"
    /\ accepted # NoMessage
    /\ ReplyEntries(accepted.data) # lastWrite.list
    /\ FileLines(file.text) = LinesOf(lastWrite.list)


RECURSIVE DialAddrs(_)
DialAddrs(es) ==
    IF es = <<>> THEN <<>>
    ELSE (IF EntryKind(es[1]) = "dial" THEN <<EntryAddr(es[1])>> ELSE <<>>)
             \o DialAddrs(Tail(es))

NoneJoins(as) == \A i \in 1..Len(as) : as[i] \notin reachable

\* C18: in one cache pass the candidates are dialled one at a time and in
\* file order, none twice.  The pass returns success at the first candidate
\* whose join succeeds and dials no later one; it returns failure only when
\* every candidate has been dialled and none has joined.
C18_Step ==
    /\ pc' = "cache_iter" =>
          /\ idx' \in 1..(Len(nodes') + 1)
          /\ dialed' = DialAddrs(SubSeq(nodes', 1, idx' - 1))
          /\ NoneJoins(dialed')
    /\ (pc = "cache_iter" /\ pc' = "cache_iter") =>
          /\ nodes' = nodes
          /\ idx' \in {idx, idx + 1}
          /\ Len(dialed') <= Len(dialed) + 1
    /\ (pc = "cache_iter" /\ pc' = "start_dht") =>
          /\ dialed' = DialAddrs(SubSeq(nodes, 1, idx))
          /\ dialed' = Append(dialed, EntryAddr(nodes[idx]))
          /\ EntryAddr(nodes[idx]) \in reachable
          /\ NoneJoins(dialed)
    /\ (pc = "cache_iter" /\ pc' = "irc") =>
          /\ dialed' = dialed
          /\ dialed = DialAddrs(nodes)
          /\ NoneJoins(dialed)

C18_CacheOrder == [][C18_Step]_vars

C18_Witness ==
    /\ pc = "start_dht"
    /\ accepted = NoMessage
    /\ dialed = <<AddrA>>
    /\ DialAddrs(ParseNodes(file)) = <<AddrA, AddrB>>


\* C19: the acquirer's file is overwritten by a reply only in the step in
\* which the attempt being waited on receives it and so succeeds; a reply
\* that arrives for an attempt that has timed out does not write the file.
C19_Step ==
    (lastWrite' # lastWrite /\ lastWrite'.by # "refresher") =>
        /\ lastWrite'.by = "reply"
        /\ pc = "wait"
        /\ future = "pending"
        /\ future' = "done"

C19_LateReplyIgnored == [][C19_Step]_vars


-----------------------------------------------------------------------------
(* Claim about the two retry loops, checked under SpecRetry.               *)

\* the order of the retry steps and the delay of each sleep
C15_Order ==
    /\ (pc = "inner_sleep" /\ pc' = "irc") => retries < 5
    /\ (pc = "inner_sleep" /\ pc' = "outer_sleep") => retries = 5
    /\ (pc = "inner_sleep" /\ retries < 5) => pc' \in {"inner_sleep", "irc"}
    /\ (pc = "inner_sleep" /\ retries >= 5) =>
           pc' \in {"inner_sleep", "outer_sleep"}
    /\ (pc = "outer_sleep" /\ pc' # pc) => pc' = "cache"
    /\ (pc = "cache_iter" /\ pc' = "irc") => NoneJoins(dialed)
    /\ pc' = "inner_sleep" => delay' = TableDelay(retries')
    /\ pc' = "outer_sleep" => delay' = TableDelay(oretries')

\* C15: after the k-th timeout in a row the acquirer reconnects and asks
\* again if and only if k < 5, sleeping the capped backoff in between; after
\* the fifth it enters the outer loop, which sleeps the capped backoff, tries
\* the cache and, only if the cache fails, asks on the channel again.  From
\* one retry to the next the delay never decreases.
C15_Step ==
    /\ C15_Order
    /\ (pc' \in {"inner_sleep", "outer_sleep"} /\ delay # 0) => delay' >= delay

C15_Escalation == [][C15_Step]_vars

=============================================================================
